---- MODULE Spec2Model ----
(***************************************************************************)
(* Quote pricing and quote lifecycle of the cabinet quoting tool.          *)
(*                                                                         *)
(* Money is held in integer cents (the columns are DECIMAL(10,2)); a tax   *)
(* rate is held in units of 0.0001 (the column is DECIMAL(5,4)).  Time is  *)
(* a day number.  A request body is a function from field names to values, *)
(* so that "field !== undefined" is "field \in DOMAIN body".  form is the  *)
(* state of the new-quote page: its item list and its pricing inputs.      *)
(***************************************************************************)
EXTENDS Integers, Sequences, FiniteSets, TLC

VARIABLES quotes, items, now, out, reqs, form

vars == <<quotes, items, now, out, reqs, form>>

----------------------------------------------------------------------------
(* Bounds of the model *)

MaxQuotes == 2
MaxItems == 2
MaxQty == 2
MaxTicks == 1
MaxYears == 1

(* Program constants *)

ExpiryDays == 30

----------------------------------------------------------------------------
(* Value sets the requests are drawn from *)

QuoteIds == 1..MaxQuotes
ItemIds == 1..MaxItems
Procs == {1, 2}

Null == -1

Products == {"p1"}
ProductPrice == [p \in Products |-> 10000]
ProductMsrp == [p \in Products |-> 12000]

(* The customers, collections and styles on record, and the ids a request
   may name (one of each names no record). *)
Customers == {"c1"}
Collections == {"col1"}
Styles == {"s1"}
CustomerIds == Customers \cup {"c9"}
CollectionIds == Collections \cup {"col9"}
StyleIds == Styles \cup {"s9"}

Statuses == {"DRAFT", "SENT", "APPROVED", "REJECTED"}
TaxRates == {875}
Fees == {0, 20000}
CabinetPrices == {0, 15000}
Quantities == 1..MaxQty

ItemInputs == [productId : Products, quantity : Quantities, unitPrice : {10000}]
ItemLists == {<<i>> : i \in ItemInputs}

----------------------------------------------------------------------------
(* Helpers *)

Max(a, b) == IF a >= b THEN a ELSE b

Least(S) == CHOOSE i \in S : \A j \in S : i <= j

(* A DECIMAL(10,2) column keeps a value to the cent: num/den cents, rounded
   half up (amounts are never negative). *)
RoundCents(num, den) == (2 * num + den) \div (2 * den)

(* prisma.update: the fields of data replace those of the stored row. *)
Merge(row, data) ==
  [f \in DOMAIN row |-> IF f \in DOMAIN data THEN data[f] ELSE row[f]]

YearOf(day) == 2026 + (day \div 365)

ItemsOf(its, qid) == {i \in DOMAIN its : its[i].quoteId = qid}

(* for (const item of items) subtotal += parseFloat(item.unitPrice) * item.quantity *)
RECURSIVE SumInputs(_)
SumInputs(s) ==
  IF s = <<>> THEN 0
  ELSE Head(s).unitPrice * Head(s).quantity + SumInputs(Tail(s))

(* quote.items.reduce((sum, item) => sum + Number(item.lineTotal), 0) *)
RECURSIVE SumLineTotals(_, _)
SumLineTotals(its, S) ==
  IF S = {} THEN 0
  ELSE LET i == CHOOSE j \in S : TRUE
       IN its[i].lineTotal + SumLineTotals(its, S \ {i})

Http(code) == [kind |-> "http", code |-> code]

----------------------------------------------------------------------------
(* The record store *)

generateQuoteNumber_AllYears(qs, day) ==
  <<YearOf(day), Cardinality(DOMAIN qs) + 1>>

(* generateQuoteNumber: Q-<year>-<count of this year's numbers + 1>; the
   number is kept as the pair <<year, sequence>>. *)
generateQuoteNumber(qs, day) ==
  <<YearOf(day),
    Cardinality({q \in DOMAIN qs : qs[q].quoteNumber[1] = YearOf(day)}) + 1>>

(* The string of a number: `Q-${year}-${(count + 1).toString().padStart(4, '0')}`,
   the digits kept as a sequence. *)
RECURSIVE Digits(_)
Digits(n) == IF n < 10 THEN <<n>> ELSE Digits(n \div 10) \o <<n % 10>>

RECURSIVE PadStart(_, _)
PadStart(s, len) == IF Len(s) >= len THEN s ELSE PadStart(<<0>> \o s, len)

FormatQuoteNumber(qn) == <<"Q", qn[1], PadStart(Digits(qn[2]), 4)>>

NumberTaken_NoIndex(qs, qn) == FALSE

(* CREATE UNIQUE INDEX "quotes_quote_number_key": an insert whose number is
   already stored is refused. *)
NumberTaken(qs, qn) == \E q \in DOMAIN qs : qs[q].quoteNumber = qn

(* items: { create: [...] } : one quote_items row per element, lineTotal as
   the caller computed it. *)
RECURSIVE InsertItems(_, _, _)
InsertItems(its, qid, rows) ==
  IF rows = <<>> THEN its
  ELSE LET id == Least(ItemIds \ DOMAIN its)
       IN InsertItems(its @@ (id :> [Head(rows) EXCEPT !.quoteId = qid]),
                      qid, Tail(rows))

RoomFor(rows) ==
  /\ QuoteIds \ DOMAIN quotes # {}
  /\ Len(rows) <= Cardinality(ItemIds \ DOMAIN items)

CreateData_Truthy(body) ==
  LET subtotal == SumInputs(body.items)
      finalClientPrice ==
        IF "clientCabinetPrice" \in DOMAIN body /\ body.clientCabinetPrice # 0
        THEN body.clientCabinetPrice
        ELSE subtotal
      installFee == body.installationFee
      miscFee == body.miscExpenses
      clientSubtotal == finalClientPrice + installFee + miscFee
      taxAmount == RoundCents(clientSubtotal * body.taxRate, 10000)
  IN [subtotal |-> subtotal,
      clientCabinetPrice |-> finalClientPrice,
      taxRate |-> body.taxRate,
      taxAmount |-> taxAmount,
      total |-> clientSubtotal + taxAmount,
      installationFee |-> installFee,
      miscExpenses |-> miscFee,
      msrpTotal |-> body.msrpTotal]

(* What createQuote computes from a request body before it inserts. *)
CreateData(body) ==
  LET subtotal == SumInputs(body.items)
      finalClientPrice ==
        IF "clientCabinetPrice" \in DOMAIN body THEN body.clientCabinetPrice
        ELSE subtotal
      installFee == body.installationFee
      miscFee == body.miscExpenses
      clientSubtotal == finalClientPrice + installFee + miscFee
      taxAmount == RoundCents(clientSubtotal * body.taxRate, 10000)
  IN [subtotal |-> subtotal,
      clientCabinetPrice |-> finalClientPrice,
      taxRate |-> body.taxRate,
      taxAmount |-> taxAmount,
      total |-> clientSubtotal + taxAmount,
      installationFee |-> installFee,
      miscExpenses |-> miscFee,
      msrpTotal |-> body.msrpTotal]

CreateRows_UnitOnly(body) ==
  [k \in 1..Len(body.items) |->
     [quoteId |-> 0,
      productId |-> body.items[k].productId,
      quantity |-> body.items[k].quantity,
      unitPrice |-> body.items[k].unitPrice,
      lineTotal |-> body.items[k].unitPrice]]

(* items.create of createQuote: one row per item of the body. *)
CreateRows(body) ==
  [k \in 1..Len(body.items) |->
     [quoteId |-> 0,
      productId |-> body.items[k].productId,
      quantity |-> body.items[k].quantity,
      unitPrice |-> body.items[k].unitPrice,
      lineTotal |-> body.items[k].unitPrice * body.items[k].quantity]]

NewQuoteRow_Sent(data, quoteNumber, day) ==
  [quoteNumber |-> quoteNumber,
   subtotal |-> data.subtotal,
   clientCabinetPrice |-> data.clientCabinetPrice,
   taxRate |-> data.taxRate,
   taxAmount |-> data.taxAmount,
   total |-> data.total,
   installationFee |-> data.installationFee,
   miscExpenses |-> data.miscExpenses,
   msrpTotal |-> data.msrpTotal,
   status |-> "SENT",
   sentAt |-> day,
   createdAt |-> day,
   expiresAt |-> day + ExpiryDays]

(* prisma.quote.create of createQuote: status DRAFT, sentAt left NULL,
   expiresAt = today + 30, createdAt = now() by column default. *)
NewQuoteRow(data, quoteNumber, day) ==
  [quoteNumber |-> quoteNumber,
   subtotal |-> data.subtotal,
   clientCabinetPrice |-> data.clientCabinetPrice,
   taxRate |-> data.taxRate,
   taxAmount |-> data.taxAmount,
   total |-> data.total,
   installationFee |-> data.installationFee,
   miscExpenses |-> data.miscExpenses,
   msrpTotal |-> data.msrpTotal,
   status |-> "DRAFT",
   sentAt |-> Null,
   createdAt |-> day,
   expiresAt |-> day + ExpiryDays]

(* The insert of one quote with its items: refused as a whole when the
   quoteNumber is taken (unique index), else stored under a fresh id. *)
InsertQuote(row, rows) ==
  IF NumberTaken(quotes, row.quoteNumber)
  THEN /\ out' = Http(500)
       /\ UNCHANGED <<quotes, items>>
  ELSE LET id == Least(QuoteIds \ DOMAIN quotes)
       IN /\ quotes' = quotes @@ (id :> row)
          /\ items' = InsertItems(items, id, rows)
          /\ out' = Http(201)

(* quotes_customer_id_fkey, quotes_collection_id_fkey, quotes_style_id_fkey:
   the insert is refused unless each of the three ids names a stored row. *)
RefsResolve(body) ==
  /\ body.customerId \in Customers
  /\ body.collectionId \in Collections
  /\ body.styleId \in Styles

(* POST /quotes : nothing of the body is validated; whatever prisma throws
   (here a foreign key that resolves to no row, or a taken quoteNumber) is
   caught and answered with 500. *)
CreateQuote(body) ==
  /\ RoomFor(body.items)
  /\ IF RefsResolve(body)
     THEN InsertQuote(NewQuoteRow(CreateData(body), generateQuoteNumber(quotes, now), now),
                      CreateRows(body))
     ELSE /\ out' = Http(500)
          /\ UNCHANGED <<quotes, items>>
  /\ UNCHANGED <<now, reqs, form>>

(* PUT /quotes/:id : items, taxRate and notes are taken out of the body, the
   rest (quoteData) goes to prisma.quote.update as it is; the items
   themselves are written nowhere. *)
UpdateData(body) ==
  LET quoteData == [f \in DOMAIN body \ {"items", "taxRate", "notes"} |-> body[f]]
  IN IF "items" \in DOMAIN body
     THEN LET subtotal == SumInputs(body.items)
              rate == IF "taxRate" \in DOMAIN body /\ body.taxRate # 0
                      THEN body.taxRate ELSE 0
              taxAmount == RoundCents(subtotal * rate, 10000)
          IN [subtotal |-> subtotal, taxRate |-> rate,
              taxAmount |-> taxAmount, total |-> subtotal + taxAmount]
             @@ quoteData
     ELSE quoteData

UpdateQuote(id, body) ==
  /\ IF id \in DOMAIN quotes
     THEN /\ quotes' = [quotes EXCEPT ![id] = Merge(@, UpdateData(body))]
          /\ out' = Http(200)
     ELSE /\ out' = Http(500)
          /\ UNCHANGED quotes
  /\ UNCHANGED <<items, now, reqs, form>>

UpdateStatus_ForwardOnly(id, status) ==
  /\ IF id \in DOMAIN quotes
     THEN IF quotes[id].status # "DRAFT" /\ status = "DRAFT"
          THEN /\ out' = Http(400)
               /\ UNCHANGED quotes
          ELSE /\ quotes' = [quotes EXCEPT ![id] =
                               Merge(@, IF status = "SENT"
                                        THEN [status |-> status, sentAt |-> now]
                                        ELSE [status |-> status])]
               /\ out' = Http(200)
     ELSE /\ out' = Http(500)
          /\ UNCHANGED quotes
  /\ UNCHANGED <<items, now, reqs, form>>

(* PATCH /quotes/:id/status *)
UpdateStatus(id, status) ==
  /\ IF id \in DOMAIN quotes
     THEN /\ quotes' = [quotes EXCEPT ![id] =
                          Merge(@, IF status = "SENT"
                                   THEN [status |-> status, sentAt |-> now]
                                   ELSE [status |-> status])]
          /\ out' = Http(200)
     ELSE /\ out' = Http(500)
          /\ UNCHANGED quotes
  /\ UNCHANGED <<items, now, reqs, form>>

(* POST /quotes/:id/send *)
SendQuote(id) ==
  /\ IF id \in DOMAIN quotes
     THEN /\ quotes' = [quotes EXCEPT ![id] =
                          Merge(@, [status |-> "SENT", sentAt |-> now])]
          /\ out' = Http(200)
     ELSE /\ out' = Http(404)
          /\ UNCHANGED quotes
  /\ UNCHANGED <<items, now, reqs, form>>

DuplicateRow_KeepStatus(original, quoteNumber, day) ==
  [original EXCEPT !.quoteNumber = quoteNumber,
                   !.createdAt = day,
                   !.expiresAt = day + ExpiryDays]

(* The row duplicateQuote inserts: the original's pricing fields, a new
   number, DRAFT, a fresh expiresAt; sentAt is not copied. *)
DuplicateRow(original, quoteNumber, day) ==
  [original EXCEPT !.quoteNumber = quoteNumber,
                   !.status = "DRAFT",
                   !.sentAt = Null,
                   !.createdAt = day,
                   !.expiresAt = day + ExpiryDays]

RECURSIVE RowsOf(_, _)
RowsOf(its, S) ==
  IF S = {} THEN <<>>
  ELSE LET i == Least(S) IN <<its[i]>> \o RowsOf(its, S \ {i})

(* POST /quotes/:id/duplicate *)
DuplicateQuote(id) ==
  /\ IF id \notin DOMAIN quotes
     THEN /\ out' = Http(404)
          /\ UNCHANGED <<quotes, items>>
     ELSE /\ RoomFor(RowsOf(items, ItemsOf(items, id)))
          /\ InsertQuote(DuplicateRow(quotes[id], generateQuoteNumber(quotes, now), now),
                         RowsOf(items, ItemsOf(items, id)))
  /\ UNCHANGED <<now, reqs, form>>

DeleteQuote_NoCascade(id) ==
  /\ IF id \in DOMAIN quotes
     THEN /\ quotes' = [q \in DOMAIN quotes \ {id} |-> quotes[q]]
          /\ items' = items
          /\ out' = Http(200)
     ELSE /\ out' = Http(500)
          /\ UNCHANGED <<quotes, items>>
  /\ UNCHANGED <<now, reqs, form>>

(* DELETE /quotes/:id ; quote_items_quote_id_fkey is ON DELETE CASCADE *)
DeleteQuote(id) ==
  /\ IF id \in DOMAIN quotes
     THEN /\ quotes' = [q \in DOMAIN quotes \ {id} |-> quotes[q]]
          /\ items' = [i \in DOMAIN items \ ItemsOf(items, id) |-> items[i]]
          /\ out' = Http(200)
     ELSE /\ out' = Http(500)
          /\ UNCHANGED <<quotes, items>>
  /\ UNCHANGED <<now, reqs, form>>

Recalculate_WithPrice(qs, its, quoteId) ==
  IF quoteId \in DOMAIN qs
  THEN LET subtotal == SumLineTotals(its, ItemsOf(its, quoteId))
           taxAmount == RoundCents(subtotal * qs[quoteId].taxRate, 10000)
       IN [qs EXCEPT ![quoteId] =
             Merge(@, [subtotal |-> subtotal, clientCabinetPrice |-> subtotal,
                       taxAmount |-> taxAmount, total |-> subtotal + taxAmount])]
  ELSE qs

(* "Recalculate quote totals" of the three item routes: from the items now
   stored for the quote and the quote's own taxRate. *)
Recalculate(qs, its, quoteId) ==
  IF quoteId \in DOMAIN qs
  THEN LET subtotal == SumLineTotals(its, ItemsOf(its, quoteId))
           taxAmount == RoundCents(subtotal * qs[quoteId].taxRate, 10000)
       IN [qs EXCEPT ![quoteId] =
             Merge(@, [subtotal |-> subtotal, taxAmount |-> taxAmount,
                       total |-> subtotal + taxAmount])]
  ELSE qs

(* POST /quotes/:quoteId/items *)
AddItem(quoteId, body) ==
  /\ ItemIds \ DOMAIN items # {}
  /\ IF quoteId \in DOMAIN quotes
     THEN LET id == Least(ItemIds \ DOMAIN items)
              its == items @@ (id :> [quoteId |-> quoteId,
                                      productId |-> body.productId,
                                      quantity |-> body.quantity,
                                      unitPrice |-> body.unitPrice,
                                      lineTotal |-> body.unitPrice * body.quantity])
          IN /\ items' = its
             /\ quotes' = Recalculate(quotes, its, quoteId)
             /\ out' = Http(201)
     ELSE /\ out' = Http(500)
          /\ UNCHANGED <<quotes, items>>
  /\ UNCHANGED <<now, reqs, form>>

(* PUT /quotes/:quoteId/items/:itemId *)
UpdateItem(quoteId, itemId, body) ==
  /\ IF itemId \in DOMAIN items
     THEN LET its == [items EXCEPT ![itemId] =
                        Merge(@, [quantity |-> body.quantity,
                                  unitPrice |-> body.unitPrice,
                                  lineTotal |-> body.unitPrice * body.quantity])]
          IN /\ items' = its
             /\ quotes' = Recalculate(quotes, its, quoteId)
             /\ out' = Http(200)
     ELSE /\ out' = Http(500)
          /\ UNCHANGED <<quotes, items>>
  /\ UNCHANGED <<now, reqs, form>>

(* DELETE /quotes/:quoteId/items/:itemId *)
DeleteItem(quoteId, itemId) ==
  /\ IF itemId \in DOMAIN items
     THEN LET its == [i \in DOMAIN items \ {itemId} |-> items[i]]
          IN /\ items' = its
             /\ quotes' = Recalculate(quotes, its, quoteId)
             /\ out' = Http(200)
     ELSE /\ out' = Http(500)
          /\ UNCHANGED <<quotes, items>>
  /\ UNCHANGED <<now, reqs, form>>

(* The clock moves on by a day. *)
Tick ==
  /\ now < MaxTicks
  /\ now' = now + 1
  /\ UNCHANGED <<quotes, items, out, reqs, form>>

(* The clock passes midnight of December 31: the first day of the next
   year. *)
NewYear ==
  /\ YearOf(now) < 2026 + MaxYears
  /\ now' = 365 * (YearOf(now) + 1 - 2026)
  /\ UNCHANGED <<quotes, items, out, reqs, form>>

----------------------------------------------------------------------------------------------------------------------------------------------------
(* Presentation: what the quote page and the PDF show.  A rendering is a
   function from the printed labels to the amounts handed to formatPrice /
   formatCurrency, in hundredths of a cent (so that 1.5 x and 1.15 x stay
   integers), and the below-cost warning. *)

C100(cents) == 100 * cents

ScreenTotals_NoFloor(q) ==
  LET wholesaleCost == C100(q.subtotal)
      cabinetPrice == C100(q.clientCabinetPrice)
      installFee == C100(q.installationFee)
      miscFee == C100(q.miscExpenses)
      clientSubtotal == cabinetPrice + installFee + miscFee
      baseCabinetMsrp == IF q.msrpTotal # 0 THEN C100(q.msrpTotal)
                         ELSE 150 * q.subtotal
      displayMsrp == baseCabinetMsrp + 150 * q.installationFee
                       + 150 * q.miscExpenses
      profit == clientSubtotal - wholesaleCost
  IN [wholesaleCost |-> wholesaleCost, cabinetPrice |-> cabinetPrice,
      installFee |-> installFee, miscFee |-> miscFee,
      clientSubtotal |-> clientSubtotal, baseCabinetMsrp |-> baseCabinetMsrp,
      displayMsrp |-> displayMsrp,
      displaySavings |-> displayMsrp - clientSubtotal,
      profit |-> profit, isProfitable |-> (profit >= 0)]

(* QuoteDetail totals block.  The page reads the JSON of the row: a Decimal
   column arrives as a string, so "quote.clientCabinetPrice || quote.subtotal"
   takes the stored price also when it is "0"; Number(quote.msrpTotal) is a
   number, and 0 falls through to wholesaleCost * 1.5. *)
ScreenTotals(q) ==
  LET wholesaleCost == C100(q.subtotal)
      cabinetPrice == C100(q.clientCabinetPrice)
      installFee == C100(q.installationFee)
      miscFee == C100(q.miscExpenses)
      clientSubtotal == cabinetPrice + installFee + miscFee
      baseCabinetMsrp == IF q.msrpTotal # 0 THEN C100(q.msrpTotal)
                         ELSE 150 * q.subtotal
      fullMarketMsrp == baseCabinetMsrp + 150 * q.installationFee
                          + 150 * q.miscExpenses
      displayMsrp == Max(fullMarketMsrp,
                         115 * (q.clientCabinetPrice + q.installationFee
                                  + q.miscExpenses))
      profit == clientSubtotal - wholesaleCost
  IN [wholesaleCost |-> wholesaleCost, cabinetPrice |-> cabinetPrice,
      installFee |-> installFee, miscFee |-> miscFee,
      clientSubtotal |-> clientSubtotal, baseCabinetMsrp |-> baseCabinetMsrp,
      displayMsrp |-> displayMsrp,
      displaySavings |-> displayMsrp - clientSubtotal,
      profit |-> profit, isProfitable |-> (profit >= 0)]

Abs(x) == IF x < 0 THEN -x ELSE x

ScreenView(id, q, clientView) ==
  LET t == ScreenTotals(q)
  IN IF clientView
     THEN [kind |-> "screen", clientView |-> TRUE, id |-> id,
           lines |-> ("Retail Market Value" :> t.displayMsrp)
                       @@ ("You Save" :> t.displaySavings)
                       @@ ("Cabinet Package" :> t.clientSubtotal)
                       @@ ("Tax" :> C100(q.taxAmount))
                       @@ ("Total" :> C100(q.total)),
           warning |-> FALSE]
     ELSE [kind |-> "screen", clientView |-> FALSE, id |-> id,
           lines |-> ("Wholesale Cabinet Cost" :> t.wholesaleCost)
                       @@ ("Our Total Cost" :> t.wholesaleCost)
                       @@ ("MSRP Total" :> t.baseCabinetMsrp)
                       @@ ("Cabinet Price" :> t.cabinetPrice)
                       @@ (IF t.installFee > 0
                           THEN ("Installation Fee" :> t.installFee) ELSE <<>>)
                       @@ (IF t.miscFee > 0
                           THEN ("Misc/Other Fees" :> t.miscFee) ELSE <<>>)
                       @@ ("Subtotal" :> t.clientSubtotal)
                       @@ ("Tax" :> C100(q.taxAmount))
                       @@ ("Client Total" :> C100(q.total))
                       @@ ("Your Profit" :> t.profit),
           warning |-> ~t.isProfitable]

(* sum + ((item.product.msrp || item.unitPrice) * item.quantity) *)
RECURSIVE SumMsrp(_, _)
SumMsrp(its, S) ==
  IF S = {} THEN 0
  ELSE LET i == CHOOSE j \in S : TRUE
           msrp == IF ProductMsrp[its[i].productId] # 0
                   THEN ProductMsrp[its[i].productId] ELSE its[i].unitPrice
       IN msrp * its[i].quantity + SumMsrp(its, S \ {i})

(* generateQuotePDF, the figures computed before the layout.  The route
   hands over Number(...) of every column, so here 0 is falsy:
   "quote.msrpTotal || sum" and "quote.clientCabinetPrice || quote.subtotal". *)
PdfTotals(q, its, S) ==
  LET msrpTotal == IF q.msrpTotal # 0 THEN q.msrpTotal ELSE SumMsrp(its, S)
      clientCabinetPrice == IF q.clientCabinetPrice # 0
                            THEN q.clientCabinetPrice ELSE q.subtotal
      clientSubtotal == clientCabinetPrice + q.installationFee + q.miscExpenses
  IN [msrpTotal |-> C100(msrpTotal),
      clientCabinetPrice |-> C100(clientCabinetPrice),
      clientSubtotal |-> C100(clientSubtotal),
      totalSavings |-> C100(msrpTotal - clientSubtotal),
      profit |-> C100(clientSubtotal - q.subtotal)]

PdfView(id, q, its, clientView) ==
  LET t == PdfTotals(q, its, ItemsOf(its, id))
      isProfitable == t.profit >= 0
  IN IF clientView
     THEN [kind |-> "pdf", clientView |-> TRUE, id |-> id,
           lines |-> ("Retail Market Value" :> t.msrpTotal)
                       @@ ("You Save" :> t.totalSavings)
                       @@ ("Cabinet Package" :> t.clientCabinetPrice)
                       @@ (IF q.installationFee > 0
                           THEN ("Installation" :> C100(q.installationFee))
                           ELSE <<>>)
                       @@ (IF q.miscExpenses > 0
                           THEN ("Additional Services" :> C100(q.miscExpenses))
                           ELSE <<>>)
                       @@ ("Subtotal" :> t.clientSubtotal)
                       @@ ("Sales Tax" :> C100(q.taxAmount))
                       @@ ("TOTAL" :> C100(q.total)),
           warning |-> FALSE]
     ELSE [kind |-> "pdf", clientView |-> FALSE, id |-> id,
           lines |-> ("Wholesale Cabinet Cost" :> C100(q.subtotal))
                       @@ ("OUR TOTAL COST" :> C100(q.subtotal))
                       @@ ("MSRP Total (Retail Value)" :> t.msrpTotal)
                       @@ ("Cabinet Price" :> t.clientCabinetPrice)
                       @@ (IF q.installationFee > 0
                           THEN ("Installation Fee" :> C100(q.installationFee))
                           ELSE <<>>)
                       @@ (IF q.miscExpenses > 0
                           THEN ("Misc/Other Fees" :> C100(q.miscExpenses))
                           ELSE <<>>)
                       @@ ("Subtotal" :> t.clientSubtotal)
                       @@ ("Tax" :> C100(q.taxAmount))
                       @@ ("CLIENT TOTAL" :> C100(q.total))
                       @@ (IF isProfitable THEN ("PROFIT" :> t.profit)
                           ELSE ("LOSS" :> Abs(t.profit))),
           warning |-> ~isProfitable]

(* The items table of the quote page, the same in both views: quantity,
   formatPrice(Number(item.unitPrice)) and formatPrice(Number(item.total));
   the rows sent by the API carry lineTotal and no total, so the last
   column is formatPrice(NaN). *)
ScreenItemRows(its, S) ==
  {[item |-> i, quantity |-> its[i].quantity,
    unitPrice |-> C100(its[i].unitPrice), total |-> "NaN"] : i \in S}

(* The items table of the client PDF: quantity and
   formatCurrency(item.total), total being Number(item.lineTotal). *)
ClientPdfItemRows(its, S) ==
  {[item |-> i, quantity |-> its[i].quantity,
    total |-> C100(its[i].lineTotal)] : i \in S}

(* GET /quotes/:id, shown by the quote page in the chosen view *)
ViewQuote(id, clientView) ==
  /\ out' = IF id \in DOMAIN quotes THEN ScreenView(id, quotes[id], clientView)
            ELSE Http(404)
  /\ UNCHANGED <<quotes, items, now, reqs, form>>

GeneratePDF_Persisting(id, clientView) ==
  /\ out' = IF id \in DOMAIN quotes
            THEN PdfView(id, quotes[id], items, clientView)
            ELSE Http(404)
  /\ quotes' = IF id \in DOMAIN quotes /\ clientView
               THEN [quotes EXCEPT ![id].total =
                       quotes[id].clientCabinetPrice + quotes[id].taxAmount]
               ELSE quotes
  /\ UNCHANGED <<items, now, reqs, form>>

(* GET /quotes/:id/pdf?clientView= *)
GeneratePDF(id, clientView) ==
  /\ out' = IF id \in DOMAIN quotes
            THEN PdfView(id, quotes[id], items, clientView)
            ELSE Http(404)
  /\ UNCHANGED <<quotes, items, now, reqs, form>>

----------------------------------------------------------------------------
(* Concurrent createQuote / duplicateQuote: a handler runs up to its next
   await, so the count of generateQuoteNumber and the insert are two steps
   and the requests of two clients interleave between them. *)

Idle == [pc |-> "idle"]

InFlight == {p \in Procs : reqs[p].pc # "idle"}

RECURSIVE SumLen(_)
SumLen(P) ==
  IF P = {} THEN 0
  ELSE LET p == CHOOSE r \in P : TRUE IN Len(reqs[p].rows) + SumLen(P \ {p})

(* The store of the model has room for what is in flight and one more. *)
RoomInFlight(rows) ==
  /\ Cardinality(DOMAIN quotes) + Cardinality(InFlight) < MaxQuotes
  /\ Cardinality(DOMAIN items) + SumLen(InFlight) + Len(rows) <= MaxItems

(* createQuote up to "await generateQuoteNumber()": totals computed, the
   year's numbers counted.  The bodies sent here name stored records, so
   the insert that follows can only be refused for its quoteNumber. *)
CreateCount(p, body) ==
  /\ reqs[p].pc = "idle"
  /\ RoomInFlight(CreateRows(body))
  /\ reqs' = [reqs EXCEPT ![p] =
       [pc |-> "insert",
        row |-> NewQuoteRow(CreateData(body), generateQuoteNumber(quotes, now), now),
        rows |-> CreateRows(body)]]
  /\ UNCHANGED <<quotes, items, now, out, form>>

(* duplicateQuote up to "await prisma.quote.findUnique": the original read *)
DuplicateRead(p, id) ==
  /\ reqs[p].pc = "idle"
  /\ IF id \in DOMAIN quotes
     THEN /\ RoomInFlight(RowsOf(items, ItemsOf(items, id)))
          /\ reqs' = [reqs EXCEPT ![p] =
               [pc |-> "count", row |-> quotes[id],
                rows |-> RowsOf(items, ItemsOf(items, id))]]
          /\ UNCHANGED out
     ELSE /\ out' = Http(404)
          /\ UNCHANGED reqs
  /\ UNCHANGED <<quotes, items, now, form>>

(* duplicateQuote: "await generateQuoteNumber()" *)
DuplicateCount(p) ==
  /\ reqs[p].pc = "count"
  /\ reqs' = [reqs EXCEPT ![p] =
       [pc |-> "insert",
        row |-> DuplicateRow(reqs[p].row, generateQuoteNumber(quotes, now), now),
        rows |-> reqs[p].rows]]
  /\ UNCHANGED <<quotes, items, now, out, form>>

(* "await prisma.quote.create": the insert, and the response *)
InsertStep(p) ==
  /\ reqs[p].pc = "insert"
  /\ InsertQuote(reqs[p].row, reqs[p].rows)
  /\ reqs' = [reqs EXCEPT ![p] = Idle]
  /\ UNCHANGED <<now, form>>

----------------------------------------------------------------------------
(* The item routes step by step: each awaits three database calls in turn,
   the write of the item, the read of the quote with its items, and the
   write of the totals; other requests run in between. *)

(* POST /quotes/:quoteId/items up to "await prisma.quoteItem.create" *)
AddItemWrite(p, quoteId, body) ==
  /\ reqs[p].pc = "idle"
  /\ ItemIds \ DOMAIN items # {}
  /\ IF quoteId \in DOMAIN quotes
     THEN /\ items' = items @@ (Least(ItemIds \ DOMAIN items) :>
                         [quoteId |-> quoteId,
                          productId |-> body.productId,
                          quantity |-> body.quantity,
                          unitPrice |-> body.unitPrice,
                          lineTotal |-> body.unitPrice * body.quantity])
          /\ reqs' = [reqs EXCEPT ![p] = [pc |-> "read", quoteId |-> quoteId, code |-> 201]]
          /\ UNCHANGED out
     ELSE /\ out' = Http(500)
          /\ UNCHANGED <<items, reqs>>
  /\ UNCHANGED <<quotes, now, form>>

(* PUT /quotes/:quoteId/items/:itemId up to "await prisma.quoteItem.update" *)
UpdateItemWrite(p, quoteId, itemId, body) ==
  /\ reqs[p].pc = "idle"
  /\ IF itemId \in DOMAIN items
     THEN /\ items' = [items EXCEPT ![itemId] =
                         Merge(@, [quantity |-> body.quantity,
                                   unitPrice |-> body.unitPrice,
                                   lineTotal |-> body.unitPrice * body.quantity])]
          /\ reqs' = [reqs EXCEPT ![p] = [pc |-> "read", quoteId |-> quoteId, code |-> 200]]
          /\ UNCHANGED out
     ELSE /\ out' = Http(500)
          /\ UNCHANGED <<items, reqs>>
  /\ UNCHANGED <<quotes, now, form>>

(* DELETE /quotes/:quoteId/items/:itemId up to "await prisma.quoteItem.delete" *)
DeleteItemWrite(p, quoteId, itemId) ==
  /\ reqs[p].pc = "idle"
  /\ IF itemId \in DOMAIN items
     THEN /\ items' = [i \in DOMAIN items \ {itemId} |-> items[i]]
          /\ reqs' = [reqs EXCEPT ![p] = [pc |-> "read", quoteId |-> quoteId, code |-> 200]]
          /\ UNCHANGED out
     ELSE /\ out' = Http(500)
          /\ UNCHANGED <<items, reqs>>
  /\ UNCHANGED <<quotes, now, form>>

(* "await prisma.quote.findUnique({ include: { items: true } })" and the
   three figures computed from what was read *)
ItemRead(p) ==
  /\ reqs[p].pc = "read"
  /\ IF reqs[p].quoteId \in DOMAIN quotes
     THEN LET quoteId == reqs[p].quoteId
              subtotal == SumLineTotals(items, ItemsOf(items, quoteId))
              taxAmount == RoundCents(subtotal * quotes[quoteId].taxRate, 10000)
          IN /\ reqs' = [reqs EXCEPT ![p] =
                  [pc |-> "write", quoteId |-> quoteId, code |-> reqs[p].code,
                   data |-> [subtotal |-> subtotal, taxAmount |-> taxAmount,
                             total |-> subtotal + taxAmount]]]
             /\ UNCHANGED out
     ELSE /\ reqs' = [reqs EXCEPT ![p] = Idle]
          /\ out' = Http(reqs[p].code)
  /\ UNCHANGED <<quotes, items, now, form>>

(* "await prisma.quote.update({ data: { subtotal, taxAmount, total } })"
   and the response *)
ItemUpdateTotals(p) ==
  /\ reqs[p].pc = "write"
  /\ IF reqs[p].quoteId \in DOMAIN quotes
     THEN /\ quotes' = [quotes EXCEPT ![reqs[p].quoteId] = Merge(@, reqs[p].data)]
          /\ out' = Http(reqs[p].code)
     ELSE /\ out' = Http(500)
          /\ UNCHANGED quotes
  /\ reqs' = [reqs EXCEPT ![p] = Idle]
  /\ UNCHANGED <<items, now, form>>

----------------------------------------------------------------------------
(* The new-quote page (NewQuote): the item list and the pricing inputs of
   step 4.  Amounts are in cents; the prices of the products are whole
   dollars and the markup a whole percent, so the markup price is a whole
   number of cents. *)

MarkupPercents == {0, 40}

(* useState(...) of the component, after the effect has run on mount. *)
FormInit ==
  [quoteItems |-> <<>>, useMarkup |-> TRUE, markupPercent |-> 40,
   clientCabinetPrice |-> 0]

RECURSIVE SumTotals(_)
SumTotals(s) == IF s = <<>> THEN 0 ELSE Head(s).total + SumTotals(Tail(s))

calculateWholesaleCost(f) == SumTotals(f.quoteItems)

(* sum + Number(item.product.msrp) * item.quantity *)
RECURSIVE calculateTotalMsrp(_)
calculateTotalMsrp(s) ==
  IF s = <<>> THEN 0
  ELSE ProductMsrp[Head(s).productId] * Head(s).quantity
         + calculateTotalMsrp(Tail(s))

PriceEffect_Flat(f) ==
  [f EXCEPT !.clientCabinetPrice = calculateWholesaleCost(f)]

(* useEffect(..., [quoteItems, markupPercent, useMarkup]): run after every
   render in which one of the three has changed. *)
PriceEffect(f) ==
  LET wholesale == calculateWholesaleCost(f)
  IN IF f.useMarkup
     THEN [f EXCEPT !.clientCabinetPrice =
             (wholesale * (100 + f.markupPercent)) \div 100]
     ELSE IF f.clientCabinetPrice = 0
     THEN [f EXCEPT !.clientCabinetPrice = wholesale]
     ELSE f

FormItem(product, quantity) ==
  [productId |-> product, quantity |-> quantity,
   unitPrice |-> ProductPrice[product],
   total |-> quantity * ProductPrice[product]]

IndexOf(s, product) ==
  IF \E k \in DOMAIN s : s[k].productId = product
  THEN Least({k \in DOMAIN s : s[k].productId = product})
  ELSE 0

handleAddProduct(product, quantity) ==
  LET existingIndex == IndexOf(form.quoteItems, product)
      updatedItems ==
        IF existingIndex > 0
        THEN [form.quoteItems EXCEPT ![existingIndex] =
                FormItem(product, @.quantity + quantity)]
        ELSE Append(form.quoteItems, FormItem(product, quantity))
  IN /\ \A k \in DOMAIN updatedItems : updatedItems[k].quantity <= MaxQty
     /\ form' = PriceEffect([form EXCEPT !.quoteItems = updatedItems])
     /\ UNCHANGED <<quotes, items, now, out, reqs>>

handleUpdateQuantity(index, newQuantity) ==
  /\ index \in DOMAIN form.quoteItems
  /\ IF newQuantity < 1
     THEN UNCHANGED form
     ELSE LET item == form.quoteItems[index]
          IN form' = PriceEffect(
               [form EXCEPT !.quoteItems[index] =
                  [item EXCEPT !.quantity = newQuantity,
                               !.total = newQuantity * item.unitPrice]])
  /\ UNCHANGED <<quotes, items, now, out, reqs>>

handleRemoveItem(index) ==
  /\ index \in DOMAIN form.quoteItems
  /\ form' = PriceEffect(
       [form EXCEPT !.quoteItems =
          SubSeq(@, 1, index - 1) \o SubSeq(@, index + 1, Len(@))])
  /\ UNCHANGED <<quotes, items, now, out, reqs>>

(* The two radio buttons of the pricing method *)
setUseMarkup(b) ==
  /\ IF b = form.useMarkup
     THEN UNCHANGED form
     ELSE form' = PriceEffect([form EXCEPT !.useMarkup = b])
  /\ UNCHANGED <<quotes, items, now, out, reqs>>

(* The markup input, shown while the method is 'Use Markup %' *)
setMarkupPercent(m) ==
  /\ form.useMarkup
  /\ IF m = form.markupPercent
     THEN UNCHANGED form
     ELSE form' = PriceEffect([form EXCEPT !.markupPercent = m])
  /\ UNCHANGED <<quotes, items, now, out, reqs>>

(* The price input, shown while the method is 'Set Custom Price'; the
   price is no dependency of the effect. *)
setClientCabinetPrice(p) ==
  /\ ~form.useMarkup
  /\ form' = [form EXCEPT !.clientCabinetPrice = p]
  /\ UNCHANGED <<quotes, items, now, out, reqs>>

(* quoteData of handleSaveQuote, as far as the server reads it (and the
   status, which it does not read). *)
FormBody(f, status) ==
  [customerId |-> "c1", collectionId |-> "col1", styleId |-> "s1",
   items |-> f.quoteItems,
   clientCabinetPrice |-> f.clientCabinetPrice,
   taxRate |-> 875, installationFee |-> 0, miscExpenses |-> 0,
   msrpTotal |-> calculateTotalMsrp(f.quoteItems),
   status |-> status]

handleSaveQuote(status) ==
  IF form.quoteItems = <<>>
  THEN UNCHANGED vars
  ELSE CreateQuote(FormBody(form, status))

----------------------------------------------------------------------------
(* Request bodies *)

OneItem(q) == <<[productId |-> "p1", quantity |-> q, unitPrice |-> 10000]>>

(* Pricing: markup or none, with and without an installation fee *)
PricingCore ==
  [customerId : Customers, collectionId : Collections, styleId : Styles,
   items : ItemLists, taxRate : TaxRates, installationFee : Fees,
   miscExpenses : {0}, msrpTotal : {0}]

PricingBodies ==
  PricingCore \cup {b @@ ("clientCabinetPrice" :> 15000) : b \in PricingCore}

UpdateBodies == [items : ItemLists] \cup [items : ItemLists, taxRate : TaxRates]

(* Lifecycle: one price, the status the form sends *)
LifeBodies ==
  [customerId : Customers, collectionId : Collections, styleId : Styles,
   items : {OneItem(1)}, taxRate : TaxRates, installationFee : {0},
   miscExpenses : {0}, msrpTotal : {12000}, clientCabinetPrice : {15000},
   status : {"DRAFT", "SENT"}]

(* Views: prices at, above and below cost (0 included), fees or none, the
   stored MSRP absent, under and over the client's subtotal *)
ViewCore ==
  [customerId : Customers, collectionId : Collections, styleId : Styles,
   items : ItemLists, taxRate : TaxRates, installationFee : Fees,
   miscExpenses : {0, 5000}, msrpTotal : {0, 12000, 60000}]

ViewBodies ==
  ViewCore \cup
  {b @@ ("clientCabinetPrice" :> c) : b \in ViewCore, c \in CabinetPrices}

(* Creation: any item list, the empty one included, and ids that resolve
   to a record or to none *)
CreateBodies ==
  [customerId : CustomerIds, collectionId : CollectionIds, styleId : StyleIds,
   items : ItemLists \cup {<<>>}, taxRate : TaxRates, installationFee : Fees,
   miscExpenses : {0}, msrpTotal : {0}]

(* Prices: none given, and explicit ones under and over cost (0 included),
   on top of an installation fee *)
PriceCore ==
  [customerId : Customers, collectionId : Collections, styleId : Styles,
   items : ItemLists, taxRate : TaxRates, installationFee : {20000},
   miscExpenses : {0}, msrpTotal : {0}]

PriceBodies ==
  PriceCore \cup
  {b @@ ("clientCabinetPrice" :> c) : b \in PriceCore, c \in CabinetPrices}

(* Lines: what the form sends for one or more of the product, msrpTotal
   being the product's msrp times the quantity *)
LineBodies ==
  {[customerId |-> c, collectionId |-> col, styleId |-> s,
    items |-> OneItem(n), taxRate |-> 875, installationFee |-> 0,
    miscExpenses |-> 0, msrpTotal |-> ProductMsrp["p1"] * n,
    clientCabinetPrice |-> 15000] :
     c \in Customers, col \in Collections, s \in Styles, n \in Quantities}

(* Duplication: one price with a markup, one or more of the product *)
DupBodies ==
  [customerId : Customers, collectionId : Collections, styleId : Styles,
   items : ItemLists, taxRate : TaxRates, installationFee : {20000},
   miscExpenses : {0}, msrpTotal : {12000}, clientCabinetPrice : {15000}]

Init ==
  /\ quotes = <<>>
  /\ items = <<>>
  /\ now = 0
  /\ out = [kind |-> "none"]
  /\ reqs = [p \in Procs |-> Idle]
  /\ form = FormInit

(* Pricing: quotes and their items, requests served one at a time *)
Next ==
  \/ \E body \in PricingBodies : CreateQuote(body)
  \/ \E id \in QuoteIds, body \in UpdateBodies : UpdateQuote(id, body)
  \/ \E id \in QuoteIds : DuplicateQuote(id)
  \/ \E id \in QuoteIds : DeleteQuote(id)
  \/ \E id \in QuoteIds, body \in ItemInputs : AddItem(id, body)
  \/ \E id \in QuoteIds, itemId \in ItemIds, body \in ItemInputs : UpdateItem(id, itemId, body)
  \/ \E id \in QuoteIds, itemId \in ItemIds : DeleteItem(id, itemId)

Spec == Init /\ [][Next]_vars

(* Lifecycle: status, dates and numbers *)
NextLife ==
  \/ \E body \in LifeBodies : CreateQuote(body)
  \/ \E id \in QuoteIds, status \in Statuses : UpdateStatus(id, status)
  \/ \E id \in QuoteIds, status \in Statuses : UpdateQuote(id, [status |-> status])
  \/ \E id \in QuoteIds : SendQuote(id)
  \/ \E id \in QuoteIds : DuplicateQuote(id)
  \/ \E id \in QuoteIds : DeleteQuote(id)
  \/ Tick

SpecLife == Init /\ [][NextLife]_vars

(* Views: one quote is saved, its items change, it is shown and printed *)
NextView ==
  \/ \E body \in ViewBodies : DOMAIN quotes = {} /\ CreateQuote(body)
  \/ \E id \in QuoteIds, body \in ItemInputs : AddItem(id, body)
  \/ \E id \in QuoteIds, itemId \in ItemIds : DeleteItem(id, itemId)
  \/ \E id \in QuoteIds : DeleteQuote(id)
  \/ \E id \in QuoteIds, clientView \in BOOLEAN : ViewQuote(id, clientView)
  \/ \E id \in QuoteIds, clientView \in BOOLEAN : GeneratePDF(id, clientView)

SpecView == Init /\ [][NextView]_vars

(* Race: two clients create and duplicate at once *)
NextRace ==
  \/ \E p \in Procs, body \in LifeBodies : CreateCount(p, body)
  \/ \E p \in Procs, id \in QuoteIds : DuplicateRead(p, id)
  \/ \E p \in Procs : DuplicateCount(p)
  \/ \E p \in Procs : InsertStep(p)
  \/ \E id \in QuoteIds : DeleteQuote(id)

SpecRace == Init /\ [][NextRace]_vars

(* Creation: what createQuote accepts and refuses *)
NextCreate ==
  \/ \E body \in CreateBodies : CreateQuote(body)
  \/ \E id \in QuoteIds : DeleteQuote(id)
  \/ Tick

SpecCreate == Init /\ [][NextCreate]_vars

(* Prices: quotes are saved one after another as the days pass; nothing
   is deleted *)
NextPrice ==
  \/ \E body \in PriceBodies : CreateQuote(body)
  \/ Tick

SpecPrice == Init /\ [][NextPrice]_vars

(* Items: quotes are saved and sent, and their items are added, changed
   and removed one at a time, each item under the quote it belongs to *)
NextItems ==
  \/ \E body \in DupBodies : CreateQuote(body)
  \/ \E id \in QuoteIds : SendQuote(id)
  \/ \E id \in QuoteIds, body \in ItemInputs : AddItem(id, body)
  \/ \E id \in QuoteIds : \E itemId \in ItemsOf(items, id), body \in ItemInputs :
       UpdateItem(id, itemId, body)
  \/ \E id \in QuoteIds : \E itemId \in ItemsOf(items, id) : DeleteItem(id, itemId)

SpecItems == Init /\ [][NextItems]_vars

(* Lines: a quote is saved and duplicated, the items of the quotes are
   added, changed and removed one at a time or sent as a new list *)
NextLines ==
  \/ \E body \in LineBodies : DOMAIN quotes = {} /\ CreateQuote(body)
  \/ \E id \in QuoteIds, body \in ItemInputs : AddItem(id, body)
  \/ \E id \in QuoteIds : \E itemId \in ItemsOf(items, id), body \in ItemInputs :
       UpdateItem(id, itemId, body)
  \/ \E id \in QuoteIds : \E itemId \in ItemsOf(items, id) : DeleteItem(id, itemId)
  \/ \E id \in QuoteIds : UpdateQuote(id, [items |-> OneItem(MaxQty)])
  \/ \E id \in QuoteIds : DuplicateQuote(id)

SpecLines == Init /\ [][NextLines]_vars

(* Deletion: quotes are saved, gain and lose items, and are deleted *)
NextDelete ==
  \/ \E body \in DupBodies : CreateQuote(body)
  \/ \E id \in QuoteIds, body \in ItemInputs : AddItem(id, body)
  \/ \E id \in QuoteIds : \E itemId \in ItemsOf(items, id) : DeleteItem(id, itemId)
  \/ \E id \in QuoteIds : DeleteQuote(id)

SpecDelete == Init /\ [][NextDelete]_vars

(* Numbers: quotes are saved, change status and are duplicated as the
   days and the years pass; nothing is deleted *)
NextNumber ==
  \/ \E body \in LifeBodies : CreateQuote(body)
  \/ \E id \in QuoteIds, status \in Statuses : UpdateStatus(id, status)
  \/ \E id \in QuoteIds : DuplicateQuote(id)
  \/ Tick
  \/ NewYear

SpecNumber == Init /\ [][NextNumber]_vars

(* Form: the user fills the new-quote page and saves one quote *)
NextForm ==
  \/ \E product \in Products, quantity \in Quantities : handleAddProduct(product, quantity)
  \/ \E index \in 1..MaxItems, newQuantity \in 0..MaxQty :
       handleUpdateQuantity(index, newQuantity)
  \/ \E index \in 1..MaxItems : handleRemoveItem(index)
  \/ \E b \in BOOLEAN : setUseMarkup(b)
  \/ \E m \in MarkupPercents : setMarkupPercent(m)
  \/ \E p \in CabinetPrices : setClientCabinetPrice(p)
  \/ \E status \in {"DRAFT", "SENT"} : DOMAIN quotes = {} /\ handleSaveQuote(status)

SpecForm == Init /\ [][NextForm]_vars

(* Item race: a quote is saved, then two clients add, change and remove
   its items at once *)
NextItemRace ==
  \/ \E body \in LineBodies : DOMAIN quotes = {} /\ CreateQuote(body)
  \/ \E p \in Procs, id \in QuoteIds, body \in ItemInputs : AddItemWrite(p, id, body)
  \/ \E p \in Procs, id \in QuoteIds : \E itemId \in ItemsOf(items, id), body \in ItemInputs :
       UpdateItemWrite(p, id, itemId, body)
  \/ \E p \in Procs, id \in QuoteIds : \E itemId \in ItemsOf(items, id) :
       DeleteItemWrite(p, id, itemId)
  \/ \E p \in Procs : ItemRead(p)
  \/ \E p \in Procs : ItemUpdateTotals(p)

SpecItemRace == Init /\ [][NextItemRace]_vars

(* Duplication: a quote is saved, moves through its statuses as the days
   pass, and is duplicated; nothing is deleted *)
NextDup ==
  \/ \E body \in DupBodies : DOMAIN quotes = {} /\ CreateQuote(body)
  \/ \E id \in QuoteIds, status \in Statuses : UpdateStatus(id, status)
  \/ \E id \in QuoteIds : DuplicateQuote(id)
  \/ Tick

SpecDup == Init /\ [][NextDup]_vars

----------------------------------------------------------------------------
(* Properties *)

ClientSubtotalOf(q) == q.clientCabinetPrice + q.installationFee + q.miscExpenses

IsRendering(o) == o.kind \in {"screen", "pdf"}

IsClientRendering(o) == IsRendering(o) /\ o.clientView

IsInstallerRendering(o) == IsRendering(o) /\ ~o.clientView

Shown(o, labels) ==
  LET l == CHOOSE x \in labels : x \in DOMAIN o.lines IN o.lines[l]

ShownTax(o) == Shown(o, {"Tax", "Sales Tax"})

ShownTotal(o) == Shown(o, {"Total", "TOTAL", "Client Total", "CLIENT TOTAL"})

ShownProfit(o) ==
  IF "LOSS" \in DOMAIN o.lines THEN 0 - o.lines["LOSS"]
  ELSE Shown(o, {"PROFIT", "Your Profit"})

(* C1: every persisted quote has taxAmount = (clientCabinetPrice +
   installationFee + miscExpenses) x taxRate, to the cent; the tax is never
   taken on the wholesale subtotal. *)
C1_TaxOnClientSubtotal ==
  \A id \in DOMAIN quotes :
    quotes[id].taxAmount =
      RoundCents(ClientSubtotalOf(quotes[id]) * quotes[id].taxRate, 10000)

(* C2: with the count reads and the inserts of concurrent createQuote and
   duplicateQuote requests interleaved in any order, no two stored quotes
   have the same quoteNumber. *)
C2_QuoteNumbersUnique ==
  \A a, b \in DOMAIN quotes :
    a # b => quotes[a].quoteNumber # quotes[b].quoteNumber

(* C2 witness: two requests counted the same year's quotes before either
   inserted; one has inserted, the other still holds the same number. *)
C2_Witness ==
  \E p \in Procs :
    /\ reqs[p].pc = "insert"
    /\ \E id \in DOMAIN quotes : quotes[id].quoteNumber = reqs[p].row.quoteNumber

(* C3: every persisted quote has total = clientCabinetPrice +
   installationFee + miscExpenses + taxAmount. *)
C3_TotalIsClientSubtotalPlusTax ==
  \A id \in DOMAIN quotes :
    quotes[id].total = ClientSubtotalOf(quotes[id]) + quotes[id].taxAmount

(* C4: with requests served one at a time, the persisted wholesale subtotal
   of every quote is the sum of the lineTotals of the items stored for it. *)
C4_SubtotalIsSumOfLineTotals ==
  \A id \in DOMAIN quotes :
    quotes[id].subtotal = SumLineTotals(items, ItemsOf(items, id))

(* C5: the client view's displayMsrp is max(base cabinet MSRP + 1.5 x
   installationFee + 1.5 x miscExpenses, 1.15 x clientSubtotal), hence at
   least 1.15 x clientSubtotal, also when the stored msrpTotal is below
   that floor. *)
C5_DisplayMsrpFloor ==
  (out.kind = "screen" /\ out.clientView) =>
    LET q == quotes[out.id]
        base == IF q.msrpTotal # 0 THEN 100 * q.msrpTotal ELSE 150 * q.subtotal
        market == base + 150 * q.installationFee + 150 * q.miscExpenses
        floor == 115 * ClientSubtotalOf(q)
    IN /\ out.lines["Retail Market Value"] = Max(market, floor)
       /\ out.lines["Retail Market Value"] >= floor

(* C5 witness: the client view of a quote whose stored MSRP, market-rate
   fees included, is under the floor. *)
C5_Witness ==
  /\ out.kind = "screen" /\ out.clientView
  /\ LET q == quotes[out.id]
     IN /\ q.msrpTotal # 0
        /\ 100 * q.msrpTotal + 150 * q.installationFee + 150 * q.miscExpenses
             < 115 * ClientSubtotalOf(q)

(* C6: in every client-facing rendering, on screen and in the client PDF,
   the savings figure shown is strictly positive. *)
C6_SavingsPositive ==
  IsClientRendering(out) => out.lines["You Save"] > 0

(* C7: no client-facing rendering lists installationFee or miscExpenses as a
   line of its own, or shows the wholesale cost or the profit. *)
C7_NoFeeOrCostLines ==
  IsClientRendering(out) =>
    DOMAIN out.lines \cap
      {"Installation", "Additional Services", "Installation Fee",
       "Misc/Other Fees", "Wholesale Cabinet Cost", "Our Total Cost",
       "OUR TOTAL COST", "Your Profit", "PROFIT", "LOSS"} = {}

(* C8: showing a quote in either view, on screen or as a PDF, changes no
   persisted field, and the tax and the grand total shown are the persisted
   taxAmount and total in the client view and in the installer view alike. *)
C8_ViewsShowStoredTotals ==
  [][\A id \in QuoteIds, clientView \in BOOLEAN :
       ((ViewQuote(id, clientView) \/ GeneratePDF(id, clientView))
          /\ id \in DOMAIN quotes)
       => /\ quotes' = quotes
          /\ items' = items
          /\ IsRendering(out') /\ out'.clientView = clientView
          /\ ShownTax(out') = 100 * quotes[id].taxAmount
          /\ ShownTotal(out') = 100 * quotes[id].total]_vars

(* C8 witness: a client rendering of a stored quote whose items changed
   after it was saved. *)
C8_Witness ==
  /\ IsClientRendering(out)
  /\ quotes[out.id].taxAmount > 0
  /\ quotes[out.id].taxAmount #
       RoundCents(ClientSubtotalOf(quotes[out.id]) * quotes[out.id].taxRate, 10000)

(* C9: the installer view, on screen and in the internal PDF, reports
   profit = clientCabinetPrice + installationFee + miscExpenses - wholesale
   subtotal of the persisted quote and warns exactly when it is negative,
   a clientCabinetPrice of zero included. *)
C9_InstallerProfit ==
  IsInstallerRendering(out) =>
    LET q == quotes[out.id]
        profit == ClientSubtotalOf(q) - q.subtotal
    IN /\ ShownProfit(out) = 100 * profit
       /\ out.warning <=> (profit < 0)

(* C10: every quote createQuote persists has status DRAFT, no sentAt and
   expiresAt 30 days after its creation, whatever status the request
   carries. *)
C10_CreatedAsDraft ==
  [][\A body \in LifeBodies :
       CreateQuote(body) =>
         \A id \in DOMAIN quotes' \ DOMAIN quotes :
           /\ quotes'[id].status = "DRAFT"
           /\ quotes'[id].sentAt = Null
           /\ quotes'[id].createdAt = now
           /\ quotes'[id].expiresAt = now + 30]_vars

(* C10 witness: a quote created on a later day, stored as a draft. *)
C10_Witness ==
  \E id \in DOMAIN quotes :
    /\ quotes[id].createdAt > 0
    /\ quotes[id].status = "DRAFT"
    /\ quotes[id].sentAt = Null
    /\ quotes[id].expiresAt = quotes[id].createdAt + 30

(* C11: createQuote given an empty item list, or a customer, collection or
   style id that resolves to no record, fails with an error and leaves the
   store unchanged: no quote and no item is persisted. *)
C11_InvalidCreateRefused ==
  [][\A body \in CreateBodies :
       (CreateQuote(body) /\ (body.items = <<>> \/ ~RefsResolve(body)))
         => /\ out'.code >= 400
            /\ UNCHANGED <<quotes, items>>]_vars

(* C12: createQuote given an explicit clientCabinetPrice below the wholesale
   subtotal (down to 0) is accepted: the quote is stored with that price as
   supplied, and its taxAmount and total are computed from that price (plus
   the fees). *)
C12_BelowCostAccepted ==
  [][\A body \in PriceBodies :
       (/\ "clientCabinetPrice" \in DOMAIN body
        /\ body.clientCabinetPrice < SumInputs(body.items)
        /\ CreateQuote(body))
         => /\ out' = Http(201)
            /\ \E id \in DOMAIN quotes' \ DOMAIN quotes :
                 LET q == quotes'[id]
                     clientSubtotal == body.clientCabinetPrice
                                       + body.installationFee + body.miscExpenses
                 IN /\ q.subtotal = SumInputs(body.items)
                    /\ q.clientCabinetPrice = body.clientCabinetPrice
                    /\ q.taxAmount = RoundCents(clientSubtotal * body.taxRate, 10000)
                    /\ q.total = clientSubtotal + q.taxAmount]_vars

(* A quote just created at price 0 on a wholesale cost of $100.00, with a
   $200.00 installation fee: tax and total are those of the $200.00. *)
C12_Witness ==
  /\ out = Http(201)
  /\ \E id \in DOMAIN quotes :
       /\ quotes[id].subtotal = 10000
       /\ quotes[id].clientCabinetPrice = 0
       /\ quotes[id].installationFee = 20000
       /\ quotes[id].miscExpenses = 0
       /\ quotes[id].taxAmount = 1750
       /\ quotes[id].total = 21750

(* C13: when the insert of a createQuote collides with a stored quoteNumber,
   the request still completes with a persisted quote (the number is
   regenerated and the insert retried) and the caller receives no error. *)
C13_CollisionRetried ==
  [][\A p \in Procs :
       (InsertStep(p) /\ NumberTaken(quotes, reqs[p].row.quoteNumber))
         => /\ out' = Http(201)
            /\ DOMAIN quotes' \ DOMAIN quotes # {}]_vars

(* C14: with requests served one at a time, after any sequence of
   createQuote, duplicateQuote and deleteQuote, each createQuote and each
   duplicateQuote of a stored quote succeeds and stores a quote under a
   quoteNumber no quote had before, also after deletions. *)
C14_SerialNumbersFresh ==
  [][LET Succeeds ==
           /\ out' = Http(201)
           /\ \E new \in DOMAIN quotes' \ DOMAIN quotes :
                \A q \in DOMAIN quotes :
                  quotes[q].quoteNumber # quotes'[new].quoteNumber
     IN /\ \A body \in LifeBodies : CreateQuote(body) => Succeeds
        /\ \A id \in DOMAIN quotes : DuplicateQuote(id) => Succeeds]_vars

(* C15: duplicateQuote(q) stores a new quote whose items (productId,
   quantity, unitPrice, lineTotal) and pricing fields equal those of q, with
   status DRAFT, sentAt cleared and expiresAt counted from today, whatever
   the status of q; q and its items stay as they were. *)
C15_DuplicateCopies ==
  [][\A id \in DOMAIN quotes :
       DuplicateQuote(id) =>
         /\ out' = Http(201)
         /\ quotes'[id] = quotes[id]
         /\ ItemsOf(items', id) = ItemsOf(items, id)
         /\ \A i \in ItemsOf(items, id) : items'[i] = items[i]
         /\ \E new \in DOMAIN quotes' \ DOMAIN quotes :
              LET q == quotes'[new]
                  Old == ItemsOf(items, id)
                  New == ItemsOf(items', new)
              IN /\ \A f \in {"subtotal", "clientCabinetPrice", "taxRate",
                              "taxAmount", "total", "installationFee",
                              "miscExpenses", "msrpTotal"} :
                      q[f] = quotes[id][f]
                 /\ q.status = "DRAFT"
                 /\ q.sentAt = Null
                 /\ q.expiresAt = now + ExpiryDays
                 /\ \E m \in [Old -> New] :
                      /\ \A j \in New : \E i \in Old : m[i] = j
                      /\ \A i, k \in Old : m[i] = m[k] => i = k
                      /\ \A i \in Old :
                           \A f \in {"productId", "quantity", "unitPrice",
                                     "lineTotal"} :
                             items'[m[i]][f] = items[i][f]]_vars

(* A quote sent on day 0 and approved has just been duplicated a day
   later: the copy is a DRAFT with no sentAt and a later expiresAt, both
   have their item. *)
C15_Witness ==
  /\ out = Http(201)
  /\ \E a, b \in DOMAIN quotes :
       /\ quotes[a].status = "APPROVED"
       /\ quotes[a].sentAt = 0
       /\ quotes[b].status = "DRAFT"
       /\ quotes[b].sentAt = Null
       /\ quotes[b].createdAt = now
       /\ quotes[b].expiresAt > quotes[a].expiresAt
       /\ quotes[b].total = quotes[a].total
       /\ ItemsOf(items, a) # {}
       /\ ItemsOf(items, b) # {}

(* C16: from each of DRAFT, SENT, APPROVED and REJECTED, updateStatus to any
   of the four statuses is accepted and the quote then has that status; no
   transition is refused, a SENT or APPROVED quote can go back to DRAFT. *)
C16_AnyTransitionAccepted ==
  [][\A id \in DOMAIN quotes, status \in Statuses :
       UpdateStatus(id, status) =>
         /\ out' = Http(200)
         /\ quotes'[id].status = status
         /\ \A other \in DOMAIN quotes \ {id} : quotes'[other] = quotes[other]]_vars

(* A quote that was sent, then approved or rejected or left SENT, is a
   DRAFT again: it still carries the day it was sent. *)
C16_Witness ==
  /\ out = Http(200)
  /\ \E id \in DOMAIN quotes :
       /\ quotes[id].status = "DRAFT"
       /\ quotes[id].sentAt # Null

(* C17: every transition to SENT stamps sentAt: whatever createQuote,
   updateStatus, send, the general update carrying a status, and
   duplicateQuote have done, a quote whose status is SENT has sentAt set. *)
C17_SentHasSentAt ==
  \A id \in DOMAIN quotes :
    quotes[id].status = "SENT" => quotes[id].sentAt # Null

(* C18: updateItems passing no taxRate leaves the stored taxRate as it was
   and computes the new taxAmount with it; clientCabinetPrice stays as it
   was unless it is passed. *)
C18_UpdateKeepsTaxRate ==
  [][\A id \in DOMAIN quotes, body \in UpdateBodies :
       (/\ "taxRate" \notin DOMAIN body
        /\ UpdateQuote(id, body))
         => /\ quotes'[id].taxRate = quotes[id].taxRate
            /\ quotes'[id].taxAmount \in
                 {RoundCents(quotes'[id].subtotal * quotes[id].taxRate, 10000),
                  RoundCents(ClientSubtotalOf(quotes'[id]) * quotes[id].taxRate, 10000)}
            /\ "clientCabinetPrice" \notin DOMAIN body
                 => quotes'[id].clientCabinetPrice = quotes[id].clientCabinetPrice]_vars

(* C19: after updateItems(q, newItems) the items stored for q are exactly
   newItems, each with lineTotal = unitPrice x quantity: none of the
   earlier items is left and none of the new ones is missing. *)
C19_UpdateReplacesItems ==
  [][\A id \in DOMAIN quotes, body \in UpdateBodies :
       UpdateQuote(id, body) =>
         LET New == ItemsOf(items', id)
             K == 1..Len(body.items)
         IN \E m \in [K -> New] :
              /\ \A j \in New : \E k \in K : m[k] = j
              /\ \A k, l \in K : m[k] = m[l] => k = l
              /\ \A k \in K :
                   /\ items'[m[k]].productId = body.items[k].productId
                   /\ items'[m[k]].quantity = body.items[k].quantity
                   /\ items'[m[k]].unitPrice = body.items[k].unitPrice
                   /\ items'[m[k]].lineTotal =
                        body.items[k].unitPrice * body.items[k].quantity]_vars

(* C20: adding, updating or deleting a single item of a quote changes only
   that item and the quote's subtotal, taxAmount and total: the quote's
   clientCabinetPrice, installationFee, miscExpenses, taxRate, msrpTotal,
   status, sentAt, quoteNumber and dates, its other items, the items of
   other quotes and every other quote stay as they were. *)
C20_ItemMutationFrame ==
  [][\A quoteId \in DOMAIN quotes :
       LET QuoteFrame ==
             /\ DOMAIN quotes' = DOMAIN quotes
             /\ \A q \in DOMAIN quotes \ {quoteId} : quotes'[q] = quotes[q]
             /\ \A f \in DOMAIN quotes[quoteId] \ {"subtotal", "taxAmount", "total"} :
                  quotes'[quoteId][f] = quotes[quoteId][f]
           OthersKept(S) == \A i \in S : i \in DOMAIN items' /\ items'[i] = items[i]
       IN /\ \A body \in ItemInputs :
               AddItem(quoteId, body) =>
                 /\ QuoteFrame
                 /\ OthersKept(DOMAIN items)
                 /\ Cardinality(DOMAIN items' \ DOMAIN items) = 1
          /\ \A itemId \in ItemsOf(items, quoteId) :
               /\ \A body \in ItemInputs :
                    UpdateItem(quoteId, itemId, body) =>
                      /\ QuoteFrame
                      /\ OthersKept(DOMAIN items \ {itemId})
                      /\ DOMAIN items' = DOMAIN items
                      /\ items'[itemId].quoteId = quoteId
                      /\ items'[itemId].productId = items[itemId].productId
               /\ DeleteItem(quoteId, itemId) =>
                      /\ QuoteFrame
                      /\ OthersKept(DOMAIN items \ {itemId})
                      /\ DOMAIN items' = DOMAIN items \ {itemId}]_vars

(* A sent quote priced above cost and carrying a fee has lost an item while
   another quote is stored: its totals are those of no items, its price,
   fee, status and sentAt are as before. *)
C20_Witness ==
  /\ out = Http(200)
  /\ \E a, b \in DOMAIN quotes :
       /\ a # b
       /\ ItemsOf(items, a) = {}
       /\ quotes[a].subtotal = 0
       /\ quotes[a].total = 0
       /\ quotes[a].clientCabinetPrice = 15000
       /\ quotes[a].installationFee = 20000
       /\ quotes[a].status = "SENT"
       /\ quotes[a].sentAt # Null
       /\ ItemsOf(items, b) # {}

(* C21: after any sequence of createQuote, single-item add and update,
   updateItems and duplicateQuote, every stored line item has
   lineTotal = unitPrice x quantity. *)
C21_LineTotalIsPriceTimesQuantity ==
  \A i \in DOMAIN items :
    items[i].lineTotal = items[i].unitPrice * items[i].quantity

(* Two quotes are stored, each with an item of two pieces at $100.00 and a
   line total of $200.00. *)
C21_Witness ==
  \E a, b \in DOMAIN quotes :
    /\ a # b
    /\ \E i \in ItemsOf(items, a), j \in ItemsOf(items, b) :
         /\ items[i].quantity = 2
         /\ items[i].lineTotal = 20000
         /\ items[j].quantity = 2
         /\ items[j].lineTotal = 20000

(* C22: after any sequence of createQuote and single-item add, update and
   delete, the msrpTotal stored for a quote is the sum of product msrp x
   quantity over the items stored for it. *)
C22_MsrpTotalFollowsItems ==
  \A id \in DOMAIN quotes :
    quotes[id].msrpTotal = SumMsrp(items, ItemsOf(items, id))

(* C23: every stored line item belongs to a quote that is still stored, and
   deleteQuote(q) removes q together with all of its items and leaves every
   other quote and its items as they were. *)
C23_DeleteCascades ==
  /\ [](\A i \in DOMAIN items : items[i].quoteId \in DOMAIN quotes)
  /\ [][\A id \in DOMAIN quotes :
          DeleteQuote(id) =>
            /\ DOMAIN quotes' = DOMAIN quotes \ {id}
            /\ \A q \in DOMAIN quotes' : quotes'[q] = quotes[q]
            /\ DOMAIN items' = DOMAIN items \ ItemsOf(items, id)
            /\ \A i \in DOMAIN items' : items'[i] = items[i]]_vars

(* The first of two quotes has been deleted with its items; the second is
   still stored and holds every item that is left. *)
C23_Witness ==
  /\ out = Http(200)
  /\ DOMAIN quotes = {2}
  /\ DOMAIN items # {}
  /\ DOMAIN items = ItemsOf(items, 2)
  /\ 1 \notin DOMAIN items

(* C24: with requests served one at a time and no deletions, the n-th quote
   created or duplicated in calendar year Y has sequence number n, printed
   as Q-Y-000n for n < 10, and the first quote of a new year has sequence 1
   however many quotes earlier years hold.  (Ids are handed out in the order
   of creation.) *)
C24_SequentialPerYear ==
  \A id \in DOMAIN quotes :
    LET Y == YearOf(quotes[id].createdAt)
        n == Cardinality({j \in DOMAIN quotes :
                            j <= id /\ YearOf(quotes[j].createdAt) = Y})
    IN /\ quotes[id].quoteNumber = <<Y, n>>
       /\ n < 10 => FormatQuoteNumber(quotes[id].quoteNumber) = <<"Q", Y, <<0, 0, 0, n>>>>

(* A quote of 2026 is stored and the first quote of 2027 has number
   Q-2027-0001. *)
C24_Witness ==
  \E a, b \in DOMAIN quotes :
    /\ quotes[a].quoteNumber = <<2026, 1>>
    /\ quotes[b].quoteNumber = <<2027, 1>>
    /\ YearOf(quotes[b].createdAt) = 2027

(* C25: in the new-quote form, whenever the pricing method is 'Use Markup
   %', clientCabinetPrice is wholesale cost x (1 + markupPercent/100) for
   the current item list, after any sequence of adding items, changing
   quantities, removing items, editing the markup and toggling the method;
   and that is the price of the quote a save stores. *)
C25_MarkupPriceFollowsItems ==
  /\ [](form.useMarkup =>
          form.clientCabinetPrice * 100 =
            calculateWholesaleCost(form) * (100 + form.markupPercent))
  /\ [][\A status \in {"DRAFT", "SENT"} :
          (form.useMarkup /\ form.quoteItems # <<>> /\ handleSaveQuote(status))
            => \E id \in DOMAIN quotes' \ DOMAIN quotes :
                 quotes'[id].clientCabinetPrice * 100 =
                   calculateWholesaleCost(form) * (100 + form.markupPercent)]_vars

(* A wholesale cost of $200.00 at a markup of 40 % has been saved as a
   cabinet price of $280.00, after the list had been changed more than
   once. *)
C25_Witness ==
  /\ form.useMarkup
  /\ form.markupPercent = 40
  /\ calculateWholesaleCost(form) = 20000
  /\ form.clientCabinetPrice = 28000
  /\ out = Http(201)
  /\ \E id \in DOMAIN quotes :
       /\ quotes[id].subtotal = 20000
       /\ quotes[id].clientCabinetPrice = 28000

(* C30: in the new-quote form, while the pricing method is 'Set Custom
   Price', adding items, changing quantities and removing items leave the
   entered clientCabinetPrice as it is, for every entered price >= 0, 0
   included. *)
C30_CustomPriceKept ==
  [][(/\ ~form.useMarkup
      /\ \/ \E product \in Products, quantity \in Quantities :
               handleAddProduct(product, quantity)
         \/ \E index \in 1..MaxItems, newQuantity \in 0..MaxQty :
               handleUpdateQuantity(index, newQuantity)
         \/ \E index \in 1..MaxItems : handleRemoveItem(index))
       => form'.clientCabinetPrice = form.clientCabinetPrice]_vars

(* C26: when two single-item mutations on the same quote run at the same
   time, then once both have completed the quote's stored subtotal is the
   sum of the lineTotals of its stored items, whatever the order of their
   item writes, item reads and total writes. *)
C26_SubtotalAfterConcurrentItems ==
  (\A p \in Procs : reqs[p].pc = "idle")
    => \A id \in DOMAIN quotes :
         quotes[id].subtotal = SumLineTotals(items, ItemsOf(items, id))

ShownSubtotal(o) ==
  IF "Subtotal" \in DOMAIN o.lines THEN o.lines["Subtotal"]
  ELSE o.lines["Cabinet Package"]

(* C27: in every view of a stored quote, on screen and in both PDFs, the
   figures shown add up: the subtotal shown (cabinet price + installation +
   misc, as the view derives it) plus the tax shown is the total shown. *)
C27_ShownFiguresAddUp ==
  IsRendering(out) => ShownSubtotal(out) + ShownTax(out) = ShownTotal(out)

(* C28: for every stored quote, the client PDF and the client view of the
   quote page show the same retail-value (MSRP) figure and the same savings
   figure. *)
C28_PdfAndScreenAgree ==
  \A id \in DOMAIN quotes :
    LET screen == ScreenView(id, quotes[id], TRUE).lines
        pdf == PdfView(id, quotes[id], items, TRUE).lines
    IN /\ pdf["Retail Market Value"] = screen["Retail Market Value"]
       /\ pdf["You Save"] = screen["You Save"]

(* C29: the client-facing rendering of a quote does not depend on its
   wholesale cost: the same quote with another wholesale subtotal and other
   wholesale unit prices and line totals of its items (here: twice the
   stored ones), all else equal, gives the same client view on the quote
   page and the same client PDF, items tables included. *)
C29_ClientViewHidesWholesale ==
  \A id \in DOMAIN quotes :
    LET S == ItemsOf(items, id)
        q2 == [quotes[id] EXCEPT !.subtotal = 2 * @]
        its2 == [i \in DOMAIN items |->
                   [items[i] EXCEPT !.unitPrice = 2 * @, !.lineTotal = 2 * @]]
    IN /\ ScreenView(id, q2, TRUE) = ScreenView(id, quotes[id], TRUE)
       /\ ScreenItemRows(its2, S) = ScreenItemRows(items, S)
       /\ PdfView(id, q2, its2, TRUE) = PdfView(id, quotes[id], items, TRUE)
       /\ ClientPdfItemRows(its2, S) = ClientPdfItemRows(items, S)

============================================================================
